---- MODULE Spec2Model ----
(***************************************************************************)
(* A model of src/newsletter_bot.py: the NewsletterBot pipeline            *)
(*   scrape -> analyze_relevance -> filter_and_rank_content ->             *)
(*   save_to_google_sheets -> generate_newsletter_html -> review file ->   *)
(*   (__main__) subscribers.csv -> send_newsletter.                        *)
(*                                                                         *)
(* Representation.                                                         *)
(*  - A NewsItem is a record [url, title, relevance_score, tags]; summary, *)
(*    source and published_date are carried through the pipeline untouched *)
(*    and no decision of the code reads them, so they are left out.        *)
(*  - Scores are held in tenths: 4.0 is 40, 5.0 is 50, 7 is 70, 10 is 100. *)
(*  - A url is an identifier compared only for equality (a natural).       *)
(*  - The rendered document is the sequence of its blocks.                 *)
(*  - Only numeric relevance_score values of the scoring service are       *)
(*    modelled (in or out of the 0-10 range).                              *)
(***************************************************************************)
EXTENDS Integers, Sequences, FiniteSets, TLC

VARIABLES
    pc,               \* position of the run
    openai_api_key,   \* self.openai_api_key is set (truthy)
    test_mode,        \* TEST_MODE == 'true'
    news_items,       \* all_items / analyzed_items (one list, mutated in place)
    responses,        \* what the scoring service answered, per item (history)
    api_calls,        \* number of openai.ChatCompletion.create calls made
    final_items,      \* result of filter_and_rank_content
    sheet_rows,       \* rows appended to the spreadsheet by this run
    newsletter_html,  \* result of generate_newsletter_html
    review_file,      \* newsletter_<date>.html as written by this run, <<>> before
    subscribers,      \* subscribers.csv as read by __main__
    recipient_list,   \* argument of send_newsletter, when it was called
    send_called,      \* send_newsletter was called
    outbox,           \* recipients server.send_message succeeded for
    errors            \* the "Error ..." lines printed by the except clauses

vars == <<pc, openai_api_key, test_mode, news_items, responses, api_calls,
          final_items, sheet_rows, newsletter_html, review_file, subscribers,
          recipient_list, send_called, outbox, errors>>

(***************************************************************************)
(* Program constants (scores in tenths).                                   *)
(***************************************************************************)
MinRelevance == 40
TopN == 15
TopStoryScore == 70
DefaultScore == 50
InitialScore == 0

(***************************************************************************)
(* Bounds of the model.                                                    *)
(***************************************************************************)
MaxCore == 2      \* freely chosen items of a curator input
MaxPad == 18      \* run of distinct-url items added to a curator input
MaxItems == 2     \* items collected in a pipeline run
MaxRender == 3    \* items of a renderer input
MaxRows == 2      \* rows of subscribers.csv

Min(a, b) == IF a <= b THEN a ELSE b

NewsItem(u, t, s, g) ==
    [url |-> u, title |-> t, relevance_score |-> s, tags |-> g]

(***************************************************************************)
(* filter_and_rank_content                                                 *)
(***************************************************************************)
RECURSIVE dedup_loop(_, _, _, _)
dedup_loop(items, i, seen_urls, acc) ==
    IF i > Len(items) THEN acc
    ELSE IF items[i].url \notin seen_urls
         THEN dedup_loop(items, i + 1, seen_urls \cup {items[i].url},
                         Append(acc, items[i]))
         ELSE dedup_loop(items, i + 1, seen_urls, acc)

\* Mutant: the last occurrence of a url overwrites the one kept for it.
RECURSIVE dedup_last_wins(_, _, _)
dedup_last_wins(items, i, acc) ==
    IF i > Len(items) THEN acc
    ELSE IF \E k \in 1..Len(acc) : acc[k].url = items[i].url
         THEN dedup_last_wins(items, i + 1,
                  [k \in 1..Len(acc) |->
                      IF acc[k].url = items[i].url THEN items[i] ELSE acc[k]])
         ELSE dedup_last_wins(items, i + 1, Append(acc, items[i]))

unique_items_last_wins(items) == dedup_last_wins(items, 1, <<>>)

unique_items(items) == dedup_loop(items, 1, {}, <<>>)

\* Mutant: strict comparison with the threshold.
relevant_items_strict(items) ==
    SelectSeq(items, LAMBDA item : item.relevance_score > MinRelevance)

relevant_items(items) ==
    SelectSeq(items, LAMBDA item : item.relevance_score >= MinRelevance)

\* Mutant: an item is placed before the items with an equal key.
insert_desc_unstable(sorted, item) ==
    LET n == Cardinality({k \in 1..Len(sorted) :
                 sorted[k].relevance_score > item.relevance_score})
    IN  SubSeq(sorted, 1, n) \o <<item>> \o SubSeq(sorted, n + 1, Len(sorted))

\* list.sort(key=relevance_score, reverse=True): a stable sort, so an item is
\* placed after every item whose key is not smaller than its own.
insert_desc(sorted, item) ==
    LET n == Cardinality({k \in 1..Len(sorted) :
                 sorted[k].relevance_score >= item.relevance_score})
    IN  SubSeq(sorted, 1, n) \o <<item>> \o SubSeq(sorted, n + 1, Len(sorted))

RECURSIVE sort_loop(_, _, _)
sort_loop(items, i, sorted) ==
    IF i > Len(items) THEN sorted
    ELSE sort_loop(items, i + 1, insert_desc(sorted, items[i]))

sort_by_relevance(items) == sort_loop(items, 1, <<>>)

\* Mutant: the slice keeps one item more.
top_items_off_by_one(items) == SubSeq(items, 1, Min(TopN + 1, Len(items)))

top_items(items) == SubSeq(items, 1, Min(TopN, Len(items)))

filter_and_rank_content(items) ==
    top_items(sort_by_relevance(relevant_items(unique_items(items))))

(***************************************************************************)
(* generate_newsletter_html and format_article_html.  The document is the *)
(* sequence of its blocks; an article block carries the item it renders.   *)
(***************************************************************************)
NoItem == NewsItem(0, "", 0, <<>>)

Block(kind, item) == [kind |-> kind, item |-> item]

format_article_html(item) == Block("article", item)

articles(items) == [i \in 1..Len(items) |-> format_article_html(items[i])]

high_relevance(items) ==
    SelectSeq(items, LAMBDA item : item.relevance_score >= TopStoryScore)

\* Mutant: the second bucket also takes the items scoring exactly 7.
other_items_inclusive(items) ==
    SelectSeq(items, LAMBDA item : item.relevance_score <= TopStoryScore)

other_items(items) ==
    SelectSeq(items, LAMBDA item : item.relevance_score < TopStoryScore)

generate_newsletter_html(items) ==
    <<Block("header", NoItem)>>
    \o (IF high_relevance(items) # <<>>
        THEN <<Block("top_stories", NoItem)>> \o articles(high_relevance(items))
        ELSE <<>>)
    \o (IF other_items(items) # <<>>
        THEN <<Block("other_updates", NoItem)>> \o articles(other_items(items))
        ELSE <<>>)
    \o <<Block("footer", NoItem)>>

(***************************************************************************)
(* analyze_relevance: the body of the loop for one item, given what the    *)
(* scoring call produced for it.                                           *)
(*   kind "exception"  : ChatCompletion.create or json.loads raised        *)
(*   kind "non_object" : json.loads gave a non-dict, result.get raised     *)
(*   kind "object"     : a JSON object, with or without each field         *)
(***************************************************************************)
Response(kind, has_score, score, has_tags, tags) ==
    [kind |-> kind, has_score |-> has_score, relevance_score |-> score,
     has_tags |-> has_tags, tags |-> tags]

ServiceResponses ==
    { Response("exception", FALSE, 0, FALSE, <<>>),
      Response("non_object", FALSE, 0, FALSE, <<>>),
      Response("object", FALSE, 0, FALSE, <<>>),
      Response("object", TRUE, 40, FALSE, <<>>),
      Response("object", TRUE, 70, TRUE, <<"ai", "maori">>),
      Response("object", TRUE, 110, TRUE, <<"ai">>),
      Response("object", TRUE, -10, TRUE, <<>>) }

Failed(r) == r.kind # "object"

\* Mutant: the except clause leaves the item as it was.
analyze_item_no_default(item, r) ==
    IF Failed(r)
    THEN item
    ELSE [item EXCEPT !.relevance_score =
                          IF r.has_score THEN r.relevance_score ELSE 0,
                      !.tags = IF r.has_tags THEN r.tags ELSE <<>>]

analyze_item(item, r) ==
    IF Failed(r)
    THEN [item EXCEPT !.relevance_score = DefaultScore]
    ELSE [item EXCEPT !.relevance_score =
                          IF r.has_score THEN r.relevance_score ELSE 0,
                      !.tags = IF r.has_tags THEN r.tags ELSE <<>>]

(***************************************************************************)
(* save_to_google_sheets: the row appended for an item.                    *)
(***************************************************************************)
SheetRow(item) == <<item.title, item.url, item.relevance_score, item.tags>>

(***************************************************************************)
(* __main__: subscribers.csv and the selection of the recipients.          *)
(* A file is [exists, has_status, rows]; a row is [email, status].         *)
(***************************************************************************)
Statuses == {"active", "inactive"}

Subscriber(i, st) == [email |-> "s" \o ToString(i) \o "@example.org", status |-> st]

NoFile == [exists |-> FALSE, has_status |-> FALSE, rows |-> <<>>]

SubscriberFiles ==
    {NoFile}
    \cup { [exists |-> TRUE, has_status |-> TRUE,
            rows |-> [i \in 1..Len(f) |-> Subscriber(i, f[i])]] :
             f \in UNION { [1..m -> Statuses] : m \in 0..MaxRows } }
    \cup { [exists |-> TRUE, has_status |-> FALSE,
            rows |-> [i \in 1..n |-> Subscriber(i, "")]] : n \in 0..MaxRows }

emails(rows) == [i \in 1..Len(rows) |-> rows[i].email]

\* subscribers_df[subscribers_df['status'] == 'active']['email'].tolist()
active_subscribers(file) ==
    emails(SelectSeq(file.rows, LAMBDA row : row.status = "active"))

(***************************************************************************)
(* Inputs of the curator: MaxCore freely chosen items (urls may repeat),   *)
(* with a run of up to MaxPad items of distinct urls and one score put in  *)
(* at any position, so that inputs longer than TopN occur.                 *)
(***************************************************************************)
CoreUrls == {1, 2}
CoreScores == {39, 40, 60, 80}
PadScores == {60}

CoreItem(i, u, s) ==
    NewsItem(u, "core" \o ToString(i), s, IF i % 2 = 1 THEN <<>> ELSE <<"ai">>)

PadItem(j, s) ==
    NewsItem(Cardinality(CoreUrls) + j, "pad" \o ToString(j), s, <<"maori">>)

CuratorInput(f, c, k, s) ==
    LET core == [i \in 1..Len(f) |-> CoreItem(i, f[i][1], f[i][2])]
    IN  SubSeq(core, 1, c) \o [j \in 1..k |-> PadItem(j, s)]
                           \o SubSeq(core, c + 1, Len(core))

(***************************************************************************)
(* Inputs of the renderer and of a run.                                    *)
(***************************************************************************)
RenderScores == {40, 69, 70, 100}

RenderItem(i, s) == NewsItem(i, "story" \o ToString(i), s, <<"ai">>)

ScrapedUrls == {1, 2}

\* scrape_rss_feeds / scrape_websites build every item with
\* relevance_score=0.0 and tags=[].
ScrapedItem(i, u) == NewsItem(u, "entry" \o ToString(i), InitialScore, <<>>)

(***************************************************************************)
(* State after NewsletterBot() and the read of TEST_MODE.                  *)
(***************************************************************************)
Fresh ==
    /\ news_items = <<>>
    /\ responses = <<>>
    /\ api_calls = 0
    /\ final_items = <<>>
    /\ sheet_rows = <<>>
    /\ newsletter_html = <<>>
    /\ review_file = <<>>
    /\ subscribers = NoFile
    /\ recipient_list = <<>>
    /\ send_called = FALSE
    /\ outbox = <<>>
    /\ errors = {}

Init ==
    /\ pc = "scrape"
    /\ openai_api_key \in BOOLEAN
    /\ test_mode \in BOOLEAN
    /\ Fresh

(***************************************************************************)
(* run_weekly_collection, step by step.                                    *)
(***************************************************************************)
Scrape ==
    /\ pc = "scrape"
    /\ \E n \in 0..MaxItems : \E f \in [1..n -> ScrapedUrls] :
         news_items' = [i \in 1..n |-> ScrapedItem(i, f[i])]
    /\ pc' = "analyze"
    /\ UNCHANGED <<openai_api_key, test_mode, responses, api_calls, final_items,
                   sheet_rows, newsletter_html, review_file, subscribers,
                   recipient_list, send_called, outbox, errors>>

\* Mutant: the credential is not looked at.
AnalyzeRelevanceAlways ==
    /\ pc = "analyze"
    /\ \E rs \in [1..Len(news_items) -> ServiceResponses] :
         /\ news_items' = [i \in 1..Len(news_items) |->
                              analyze_item(news_items[i], rs[i])]
         /\ responses' = rs
         /\ api_calls' = Len(news_items)
         /\ errors' = errors \cup
                {"analyze" : i \in {k \in 1..Len(news_items) : Failed(rs[k])}}
    /\ pc' = "filter"
    /\ UNCHANGED <<openai_api_key, test_mode, final_items, sheet_rows,
                   newsletter_html, review_file, subscribers, recipient_list,
                   send_called, outbox>>

AnalyzeRelevance ==
    /\ pc = "analyze"
    /\ IF ~openai_api_key
       THEN UNCHANGED <<news_items, responses, api_calls, errors>>
       ELSE \E rs \in [1..Len(news_items) -> ServiceResponses] :
              /\ news_items' = [i \in 1..Len(news_items) |->
                                   analyze_item(news_items[i], rs[i])]
              /\ responses' = rs
              /\ api_calls' = Len(news_items)
              /\ errors' = errors \cup
                     {"analyze" : i \in {k \in 1..Len(news_items) : Failed(rs[k])}}
    /\ pc' = "filter"
    /\ UNCHANGED <<openai_api_key, test_mode, final_items, sheet_rows,
                   newsletter_html, review_file, subscribers, recipient_list,
                   send_called, outbox>>

FilterAndRank ==
    /\ pc = "filter"
    /\ final_items' = filter_and_rank_content(news_items)
    /\ pc' = "sheets"
    /\ UNCHANGED <<openai_api_key, test_mode, news_items, responses, api_calls,
                   sheet_rows, newsletter_html, review_file, subscribers,
                   recipient_list, send_called, outbox, errors>>

\* fail_at = 0: the credentials or the spreadsheet cannot be opened;
\* fail_at = k in 1..Len: append_row raises for item k;
\* fail_at = Len + 1: every row is appended.
\* sheet_rows holds the item rows only (the header row of a newly created
\* spreadsheet is not an item's row); every exception is caught at line 300.
SaveToGoogleSheets ==
    /\ pc = "sheets"
    /\ \E fail_at \in 0..(Len(final_items) + 1) :
         /\ sheet_rows' = [i \in 1..Min(Len(final_items), fail_at - 1) |->
                              SheetRow(final_items[i])]
         /\ errors' = IF fail_at <= Len(final_items)
                      THEN errors \cup {"sheets"} ELSE errors
    /\ pc' = "render"
    /\ UNCHANGED <<openai_api_key, test_mode, news_items, responses, api_calls,
                   final_items, newsletter_html, review_file, subscribers,
                   recipient_list, send_called, outbox>>

GenerateNewsletterHtml ==
    /\ pc = "render"
    /\ newsletter_html' = generate_newsletter_html(final_items)
    /\ pc' = "write"
    /\ UNCHANGED <<openai_api_key, test_mode, news_items, responses, api_calls,
                   final_items, sheet_rows, review_file, subscribers,
                   recipient_list, send_called, outbox, errors>>

\* Mutant: the run returns without having written the file.
WriteReviewFileSkipped ==
    /\ pc = "write"
    /\ pc' = "returned"
    /\ UNCHANGED <<openai_api_key, test_mode, news_items, responses, api_calls,
                   final_items, sheet_rows, newsletter_html, review_file,
                   subscribers, recipient_list, send_called, outbox, errors>>

\* open(...)/f.write(...) is in no try block: when it raises, the run ends
\* with the exception.
WriteReviewFile ==
    /\ pc = "write"
    /\ \E written \in BOOLEAN :
         IF written
         THEN review_file' = newsletter_html /\ pc' = "returned"
         ELSE review_file' = review_file /\ pc' = "crashed"
    /\ UNCHANGED <<openai_api_key, test_mode, news_items, responses, api_calls,
                   final_items, sheet_rows, newsletter_html, subscribers,
                   recipient_list, send_called, outbox, errors>>

(***************************************************************************)
(* __main__ after run_weekly_collection has returned.                      *)
(***************************************************************************)
LoadSubscribers ==
    /\ pc = "returned"
    /\ IF test_mode \/ final_items = <<>>
       THEN /\ pc' = "done"
            /\ UNCHANGED <<subscribers, recipient_list, send_called, errors>>
       ELSE \E file \in SubscriberFiles :
              /\ subscribers' = file
              /\ IF ~file.exists
                 THEN /\ pc' = "done"
                      /\ UNCHANGED <<recipient_list, send_called, errors>>
                 ELSE IF ~file.has_status
                 \* subscribers_df.get('status', 'active') is the string
                 \* 'active'; the comparison gives True and
                 \* subscribers_df[True] raises KeyError.
                 THEN /\ pc' = "done"
                      /\ errors' = errors \cup {"main"}
                      /\ UNCHANGED <<recipient_list, send_called>>
                 ELSE IF active_subscribers(file) # <<>>
                 THEN /\ pc' = "send"
                      /\ recipient_list' = active_subscribers(file)
                      /\ send_called' = TRUE
                      /\ UNCHANGED errors
                 ELSE /\ pc' = "done"
                      /\ UNCHANGED <<recipient_list, send_called, errors>>
    /\ UNCHANGED <<openai_api_key, test_mode, news_items, responses, api_calls,
                   final_items, sheet_rows, newsletter_html, review_file, outbox>>

\* fail_at = 0: SMTP connect, starttls or login raises;
\* fail_at = k in 1..Len: send_message raises for recipient k;
\* fail_at = Len + 1: every message is sent.
SendNewsletter ==
    /\ pc = "send"
    /\ \E fail_at \in 0..(Len(recipient_list) + 1) :
         /\ outbox' = SubSeq(recipient_list, 1,
                             Min(Len(recipient_list), fail_at - 1))
         /\ errors' = IF fail_at <= Len(recipient_list)
                      THEN errors \cup {"send"} ELSE errors
    /\ pc' = "done"
    /\ UNCHANGED <<openai_api_key, test_mode, news_items, responses, api_calls,
                   final_items, sheet_rows, newsletter_html, review_file,
                   subscribers, recipient_list, send_called>>

Next ==
    \/ Scrape
    \/ AnalyzeRelevance
    \/ FilterAndRank
    \/ SaveToGoogleSheets
    \/ GenerateNewsletterHtml
    \/ WriteReviewFile
    \/ LoadSubscribers
    \/ SendNewsletter

Spec == Init /\ [][Next]_vars

(***************************************************************************)
(* The curator alone, on inputs of any content.                            *)
(***************************************************************************)
InitCurate ==
    /\ pc = "filter"
    /\ openai_api_key = TRUE
    /\ test_mode = TRUE
    /\ \E n \in 0..MaxCore : \E f \in [1..n -> CoreUrls \X CoreScores] :
       \E c \in 0..n : \E k \in 0..MaxPad : \E s \in PadScores :
         news_items = CuratorInput(f, c, k, s)
    /\ responses = <<>>
    /\ api_calls = 0
    /\ final_items = <<>>
    /\ sheet_rows = <<>>
    /\ newsletter_html = <<>>
    /\ review_file = <<>>
    /\ subscribers = NoFile
    /\ recipient_list = <<>>
    /\ send_called = FALSE
    /\ outbox = <<>>
    /\ errors = {}

NextCurate == FilterAndRank

SpecCurate == InitCurate /\ [][NextCurate]_vars

(***************************************************************************)
(* The renderer alone, on inputs of any content.                           *)
(***************************************************************************)
InitRender ==
    /\ pc = "render"
    /\ openai_api_key = TRUE
    /\ test_mode = TRUE
    /\ news_items = <<>>
    /\ responses = <<>>
    /\ api_calls = 0
    /\ \E n \in 0..MaxRender : \E f \in [1..n -> RenderScores] :
         final_items = [i \in 1..n |-> RenderItem(i, f[i])]
    /\ sheet_rows = <<>>
    /\ newsletter_html = <<>>
    /\ review_file = <<>>
    /\ subscribers = NoFile
    /\ recipient_list = <<>>
    /\ send_called = FALSE
    /\ outbox = <<>>
    /\ errors = {}

NextRender == GenerateNewsletterHtml

SpecRender == InitRender /\ [][NextRender]_vars

(***************************************************************************)
(* Vocabulary of the claims about the curator.                             *)
(***************************************************************************)
Curated == pc = "sheets"

\* i is the first position of its url in items
IsFirstOccurrence(items, i) == \A k \in 1..(i - 1) : items[k].url # items[i].url

FirstIndex(items, u) ==
    CHOOSE i \in 1..Len(items) : items[i].url = u /\ IsFirstOccurrence(items, i)

\* positions of the first occurrences that score at least 4.0
Qualifying(items) ==
    {i \in 1..Len(items) :
        IsFirstOccurrence(items, i) /\ items[i].relevance_score >= 40}

Kept(items, out, i) == \E k \in 1..Len(out) : out[k].url = items[i].url

\* C1: in the output of filter_and_rank_content no url occurs twice, and the
\* item the output holds for a url is the first item of the input with that
\* url, with that item's title, score and tags, whatever the later items with
\* the same url score.
C1_DedupFirstWins ==
    Curated =>
      /\ \A i, j \in 1..Len(final_items) :
            final_items[i].url = final_items[j].url => i = j
      /\ \A i \in 1..Len(final_items) :
            /\ \E k \in 1..Len(news_items) : news_items[k].url = final_items[i].url
            /\ final_items[i] = news_items[FirstIndex(news_items, final_items[i].url)]

\* a url is repeated with a higher score later, and its first item is kept
C1_Witness ==
    /\ Curated
    /\ \E i, j \in 1..Len(news_items) :
          /\ i < j
          /\ news_items[i].url = news_items[j].url
          /\ news_items[j].relevance_score > news_items[i].relevance_score
          /\ IsFirstOccurrence(news_items, i)
          /\ \E k \in 1..Len(final_items) : final_items[k] = news_items[i]

\* C2: the output is sorted non-increasing by relevance_score, two output
\* items of equal score stand in their input order, and an input of items of
\* distinct urls that all have one score (at least 4.0) yields its first 15
\* items in input order.
C2_SortedStable ==
    Curated =>
      \* stated on neighbours: both orders are transitive
      /\ \A i \in 1..(Len(final_items) - 1) :
            /\ final_items[i].relevance_score >= final_items[i + 1].relevance_score
            /\ final_items[i].relevance_score = final_items[i + 1].relevance_score
                 => FirstIndex(news_items, final_items[i].url)
                      < FirstIndex(news_items, final_items[i + 1].url)
      /\ ( /\ \A i \in 1..Len(news_items) :
                 /\ IsFirstOccurrence(news_items, i)
                 /\ news_items[i].relevance_score = news_items[1].relevance_score
                 /\ news_items[i].relevance_score >= 40 )
           => final_items = SubSeq(news_items, 1,
                                   IF Len(news_items) < 15 THEN Len(news_items) ELSE 15)

\* 20 items all scoring 6.0: the first 15 in input order
C2_Witness ==
    /\ Curated
    /\ Len(news_items) = 20
    /\ \A i \in 1..20 : /\ news_items[i].relevance_score = 60
                        /\ IsFirstOccurrence(news_items, i)
    /\ final_items = SubSeq(news_items, 1, 15)

\* C3: the output holds no item scoring below 4.0; a first occurrence scoring
\* at least 4.0 is missing from the output only when the output is full (15
\* items); an input whose items all score below 4.0 yields the empty list.
C3_Threshold ==
    Curated =>
      /\ \A i \in 1..Len(final_items) : final_items[i].relevance_score >= 40
      /\ \A i \in Qualifying(news_items) :
            ~Kept(news_items, final_items, i) => Len(final_items) = 15
      /\ (\A i \in 1..Len(news_items) : news_items[i].relevance_score < 40)
            => final_items = <<>>

\* an item below 4.0 was filtered out and a qualifying one was cut by the
\* truncation
C3_Witness ==
    /\ Curated
    /\ \E i \in 1..Len(news_items) :
          news_items[i].relevance_score < 40 /\ IsFirstOccurrence(news_items, i)
    /\ \E i \in Qualifying(news_items) : ~Kept(news_items, final_items, i)
    /\ Len(final_items) = 15

\* C4: the output has at most 15 items and at most as many as the input; its
\* length is min(15, number of first occurrences scoring at least 4.0); no
\* item cut by the truncation scores strictly higher than a kept item.
C4_Bound ==
    Curated =>
      /\ Len(final_items) <= 15
      /\ Len(final_items) <= Len(news_items)
      /\ Len(final_items) =
            (IF Cardinality(Qualifying(news_items)) < 15
             THEN Cardinality(Qualifying(news_items)) ELSE 15)
      /\ \A i \in Qualifying(news_items) :
            ~Kept(news_items, final_items, i) =>
               \A k \in 1..Len(final_items) :
                  final_items[k].relevance_score >= news_items[i].relevance_score

\* more than 15 qualifying items, of two different scores, with a repeated url
C4_Witness ==
    /\ Curated
    /\ Cardinality(Qualifying(news_items)) > 15
    /\ Len(final_items) = 15
    /\ Len(news_items) > Cardinality(Qualifying(news_items))
    /\ final_items[1].relevance_score > final_items[15].relevance_score

(***************************************************************************)
(* Vocabulary of the claim about the renderer.                             *)
(***************************************************************************)
Rendered == pc = "write"

Positions(doc, kind) == {p \in 1..Len(doc) : doc[p].kind = kind}

\* the items of the article blocks that follow the heading `kind`, up to the
\* next block that is no article; <<>> when the document has no such heading
SectionItems(doc, kind) ==
    IF Positions(doc, kind) = {} THEN <<>>
    ELSE LET h == CHOOSE p \in Positions(doc, kind) :
                     \A q \in Positions(doc, kind) : p <= q
             n == Cardinality({q \in (h + 1)..Len(doc) :
                     \A r \in (h + 1)..q : doc[r].kind = "article"})
         IN  [i \in 1..n |-> doc[h + i].item]

\* C5: in the document of generate_newsletter_html the top-stories section
\* holds exactly the input items scoring at least 7 and the other-updates
\* section exactly those scoring below 7, each item once and in input order;
\* top stories come before other updates; a section and its heading are
\* absent when its bucket is empty, so no items give header and footer only.
C5_Partition ==
    Rendered =>
      LET doc == newsletter_html
          top == SelectSeq(final_items, LAMBDA item : item.relevance_score >= 70)
          other == SelectSeq(final_items, LAMBDA item : item.relevance_score < 70)
      IN  /\ doc[1].kind = "header"
          /\ doc[Len(doc)].kind = "footer"
          /\ Cardinality(Positions(doc, "header")) = 1
          /\ Cardinality(Positions(doc, "footer")) = 1
          /\ Cardinality(Positions(doc, "top_stories")) = (IF top = <<>> THEN 0 ELSE 1)
          /\ Cardinality(Positions(doc, "other_updates")) = (IF other = <<>> THEN 0 ELSE 1)
          /\ SectionItems(doc, "top_stories") = top
          /\ SectionItems(doc, "other_updates") = other
          /\ Cardinality(Positions(doc, "article")) = Len(final_items)
          /\ \A p \in Positions(doc, "top_stories") :
                \A q \in Positions(doc, "other_updates") : p < q
          /\ final_items = <<>> => Len(doc) = 2

\* both sections are rendered, with an item at exactly 7 and one just below
C5_Witness ==
    /\ Rendered
    /\ \E i, j \in 1..Len(final_items) :
          /\ final_items[i].relevance_score = 70
          /\ final_items[j].relevance_score = 69
          /\ i > j
    /\ Positions(newsletter_html, "top_stories") # {}
    /\ Positions(newsletter_html, "other_updates") # {}

(***************************************************************************)
(* Vocabulary of the claims about a run.                                   *)
(***************************************************************************)
Analyzed == pc \notin {"scrape", "analyze"}

\* what a JSON object of the service gives for a field it lacks
ScoreOf(r) == IF r.has_score THEN r.relevance_score ELSE 0

TagsOf(r) == IF r.has_tags THEN r.tags ELSE <<>>

\* C6: with a scoring credential configured, after analyze_relevance every
\* item whose scoring call failed has relevance_score 5.0 and tags [], every
\* other item has the score and tags of its own response, a call was made for
\* every item, and the step changes no item's url or title.
C6_ScoringFallback ==
    /\ [](openai_api_key /\ Analyzed =>
            /\ Len(responses) = Len(news_items)
            /\ api_calls = Len(news_items)
            /\ \A i \in 1..Len(news_items) :
                  IF responses[i].kind # "object"
                  THEN /\ news_items[i].relevance_score = 50
                       /\ news_items[i].tags = <<>>
                  ELSE /\ news_items[i].relevance_score = ScoreOf(responses[i])
                       /\ news_items[i].tags = TagsOf(responses[i]))
    /\ [][pc = "analyze" =>
            /\ Len(news_items') = Len(news_items)
            /\ \A i \in 1..Len(news_items) :
                  /\ news_items'[i].url = news_items[i].url
                  /\ news_items'[i].title = news_items[i].title]_vars

\* the first call fails, the second one answers, and the loop went on
C6_Witness ==
    /\ openai_api_key
    /\ Analyzed
    /\ Len(news_items) = 2
    /\ responses[1].kind = "exception"
    /\ responses[2].kind = "object"
    /\ news_items[1].relevance_score = 50
    /\ news_items[2].relevance_score = 70
    /\ news_items[2].tags = <<"ai", "maori">>

\* C7: the recipient list passed to send_newsletter is the emails of the rows
\* whose status is "active", in file order, and a subscriber file without a
\* status column has all its emails passed to delivery.
C7_ActiveRecipients ==
    (pc \in {"send", "done"} /\ ~test_mode /\ final_items # <<>>
        /\ subscribers.exists) =>
      /\ (send_called /\ subscribers.has_status) =>
            recipient_list =
              emails(SelectSeq(subscribers.rows, LAMBDA row : row.status = "active"))
      /\ (~subscribers.has_status /\ subscribers.rows # <<>>) =>
            /\ send_called
            /\ recipient_list = emails(subscribers.rows)

\* C8 as stated: the review file holding the digest is written when
\* spreadsheet logging and when mail delivery are attempted.
C8_FileWrittenBeforeLoggingAndDelivery ==
    pc \in {"sheets", "send"} =>
      /\ review_file # <<>>
      /\ review_file = newsletter_html

\* C8 amended: the review file holding the digest is written when mail
\* delivery is attempted (spreadsheet logging is attempted earlier, before the
\* digest is rendered); the logging step and the delivery step, failing or
\* not, go on to the next step of the run and change neither the curated
\* items nor the review file.
C8_DeliveryAfterFile ==
    /\ []((pc = "send" \/ send_called) =>
            /\ review_file # <<>>
            /\ review_file = newsletter_html
            /\ Cardinality(Positions(review_file, "article")) = Len(final_items))
    /\ [](pc = "sheets" => review_file = <<>> /\ newsletter_html = <<>>)
    /\ [][pc = "sheets" =>
            pc' = "render" /\ final_items' = final_items
                           /\ review_file' = review_file]_vars
    /\ [][pc = "send" =>
            pc' = "done" /\ final_items' = final_items
                         /\ review_file' = review_file]_vars

\* logging failed, delivery failed, and the run completed with the file
C8_Witness ==
    /\ pc = "done"
    /\ "sheets" \in errors
    /\ "send" \in errors
    /\ send_called
    /\ final_items # <<>>
    /\ review_file = newsletter_html
    /\ review_file # <<>>

\* C9: every item's relevance_score is in [0,10] in every state of a run, in
\* the collected list, the curated list, the spreadsheet rows and the digest.
C9_ScoreRange ==
    /\ \A i \in 1..Len(news_items) : news_items[i].relevance_score \in 0..100
    /\ \A i \in 1..Len(final_items) : final_items[i].relevance_score \in 0..100
    /\ \A i \in 1..Len(sheet_rows) : sheet_rows[i][3] \in 0..100
    /\ \A p \in Positions(newsletter_html, "article") :
          newsletter_html[p].item.relevance_score \in 0..100

\* C10: with no scoring credential, analyze_relevance makes no service call
\* and leaves the items as they are (score 0.0, no tags); the curated list is
\* empty, the digest has no section, and no message is sent, test mode or not.
C10_NoCredential ==
    /\ [](~openai_api_key =>
            /\ api_calls = 0
            /\ responses = <<>>
            /\ \A i \in 1..Len(news_items) :
                  news_items[i].relevance_score = 0 /\ news_items[i].tags = <<>>
            /\ final_items = <<>>
            /\ sheet_rows = <<>>
            /\ newsletter_html # <<>> =>
                  /\ Len(newsletter_html) = 2
                  /\ Positions(newsletter_html, "top_stories") = {}
                  /\ Positions(newsletter_html, "other_updates") = {}
                  /\ Positions(newsletter_html, "article") = {}
            /\ ~send_called
            /\ pc # "send"
            /\ outbox = <<>>)
    /\ [][(~openai_api_key /\ pc = "analyze") => news_items' = news_items]_vars

\* a run without credential and without test mode collected two items and
\* completed with an empty digest and nothing sent
C10_Witness ==
    /\ ~openai_api_key
    /\ ~test_mode
    /\ pc = "done"
    /\ Len(news_items) = 2
    /\ Len(newsletter_html) = 2
    /\ review_file = newsletter_html
    /\ ~send_called

====
